---- MODULE Spec2Model ----
(***************************************************************************)
(* Model of the class-based Dialog component (Dialog.alert / confirm /     *)
(* prompt, class ACPDialog and its subclasses) of dialog-samples.          *)
(*                                                                         *)
(* The document is modelled by: the page button P, one subtree per dialog  *)
(* instance (root, optional text input, optional cancel button, OK         *)
(* button), document.activeElement and the listener lists of document      *)
(* (keydown) and document.body (capturing focus).                          *)
(*                                                                         *)
(* Handlers run to completion (single UI thread); each action below is one *)
(* whole handler, computed by the operators open, close, focus, ... that   *)
(* take a state record and return the state record after the call.  An     *)
(* exception is the field threw: the statements after the throwing one are *)
(* not executed.                                                           *)
(***************************************************************************)
EXTENDS Integers, Sequences, FiniteSets, TLC

\* ---------------------------------------------------------------- bounds
MaxDialogs == 2   \* instances created by the factories during one run
MaxFired == 4     \* lifecycle emissions recorded per instance
MaxPageDialogs == 1   \* instances created on the page that registers listeners
MaxListeners == 2     \* listeners an instance has registered at a time
MaxOverlays == 2      \* OverlayDialogs created by showAlert / showConfirm
MaxOKCalls == 2       \* calls of the onOK of one dialog after which it is not shown again

\* ------------------------------------------------------------- constants
TAB == 9
ESC == 27
OTHERKEY == 65

\* ------------------------------------------------------------- elements
DialogIds == 0 .. (MaxDialogs - 1)
Page == 0 - 1
Body == <<Page, "body">>
P == <<Page, "P">>
Null == <<Page, "null">>
El(d, n) == <<d, n>>
IsDialogEl(e) == e[1] \in DialogIds

Kinds == {"alert", "confirm", "prompt"}
EVENTS == [Close |-> "close", Open |-> "open", Ready |-> "ready"]

Undefined == <<"undefined">>
\* argument values of Dialog.prompt's defaultValue; strings are character sequences
DefaultValues == {Undefined, <<>>, <<"h", "\"", "i">>}
\* what a user can have typed into the text input
TypedValues == {<<>>, <<"h">>}

\* ------------------------------------------------------- markup (DOM Builder)
Button(n, af, prim) ==
  [name |-> n, tag |-> "button", autofocus |-> af, closer |-> TRUE, primary |-> prim]

\* _getInputElement of AlertDialog, ConfirmDialog, PromptDialog
getInputElement(k) ==
  IF k = "prompt"
    THEN << [name |-> "input", tag |-> "input", autofocus |-> TRUE,
             closer |-> FALSE, primary |-> FALSE] >>
    ELSE << >>

\* mutant: AlertDialog inherits a cancel button
getCancelButtonInherited(k) ==
  IF k = "confirm" THEN << Button("cancel", TRUE, FALSE) >>
                   ELSE << Button("cancel", FALSE, FALSE) >>

\* _getCancelButton of AlertDialog, ConfirmDialog, PromptDialog
getCancelButton(k) ==
  CASE k = "alert" -> << >>
    [] k = "confirm" -> << Button("cancel", TRUE, FALSE) >>
    [] OTHER -> << Button("cancel", FALSE, FALSE) >>

\* _getOkButton of AlertDialog and CPDialog
getOkButton(k) ==
  IF k = "alert" THEN << Button("ok", TRUE, TRUE) >>
                 ELSE << Button("ok", FALSE, TRUE) >>

\* the descendants of the dialog root in document order (the innerHTML template)
Children(k) == getInputElement(k) \o getCancelButton(k) \o getOkButton(k)

ChildNames == {"input", "cancel", "ok"}
Names == ChildNames \cup {"root"}

\* the value attribute of the input as the HTML parser reads it: the template
\* puts the string between double quotes, so it ends at the first double quote
RECURSIVE UpToQuote(_)
UpToQuote(str) ==
  IF str = << >> \/ Head(str) = "\"" THEN << >>
  ELSE <<Head(str)>> \o UpToQuote(Tail(str))

\* mutant: value="${defaultValue}", which prints a missing argument
InitialValueUnguarded(dv) ==
  IF dv = Undefined THEN <<"u", "n", "d", "e", "f", "i", "n", "e", "d">> ELSE UpToQuote(dv)

\* value="${defaultValue ? defaultValue : ''}"
InitialValue(dv) ==
  IF dv = Undefined \/ dv = << >> THEN << >> ELSE UpToQuote(dv)

\* ---------------------------------------------------------------- state
VARIABLES
  num,             \* the id counter
  kind,            \* class of instance d, "none" while not created
  cb,              \* whether _cb is a function
  isOpen,          \* _isOpen
  previousFocusElement,
  listeners,       \* _listeners: event name -> sequence of listeners
  closerClick,     \* the click listeners on the closers are attached
  ariaHidden,      \* the root carries aria-hidden="true"
  inBody,          \* the root is a child of document.body
  value,           \* the value of the text input
  focusL,          \* capturing focus listeners of document.body, in order
  keydownL,        \* keydown listeners of document, in order
  activeElement,   \* document.activeElement
  cbLog,           \* the invocations of _cb, by their argument
  fired,           \* the calls of _fire, by event name
  lastEvent,       \* the click or keydown event handled last, if a listener of
                   \* a dialog acted on it (a closer's click listener ran, a
                   \* keydown listener called preventDefault or threw)
  cbBody,          \* what the function passed as cb does when it is called
  heard,           \* the invocations of the listeners registered with on()
  shown,           \* the stylesheet of the page displays the controls (input,
                   \* buttons) of the dialog
  \* a page that loads the older variant (showAlert / showConfirm)
  script,          \* the file the page loads, "none" for a page of Dialog.alert
  dialogNum,       \* Dialog.num
  dialogs,         \* Dialog.dialogs: id -> the fields of the OverlayDialog
  overflow,        \* document.documentElement.style.overflow
  pageOverflow,    \* the overflow style the page gave to <html> when it loaded
  focused,         \* document.activeElement of that page
  onOKCalls,       \* how often the onOK of each dialog was called
  timers,          \* the dialogs with a pending delayed setPrimaryFocus
  lastInput        \* the input event handled last

\* the variables of the class-based dialog and of the older variant
dvars == <<num, kind, cb, isOpen, previousFocusElement, listeners, closerClick,
           ariaHidden, inBody, value, focusL, keydownL, activeElement,
           cbLog, fired, lastEvent, cbBody, heard, shown>>
ovars == <<script, dialogNum, dialogs, overflow, pageOverflow, focused, onOKCalls,
           timers, lastInput>>

vars == <<dvars, ovars>>

\* the state as one record, plus the control outcome of the running handler,
\* the stylesheet in force while it runs (cssHides: a root with
\* aria-hidden="true" is not rendered) and the effects of close() so far, in
\* the order they happened (trace)
Cur ==
  [num |-> num, kind |-> kind, cb |-> cb, isOpen |-> isOpen,
   previousFocusElement |-> previousFocusElement, listeners |-> listeners,
   closerClick |-> closerClick, ariaHidden |-> ariaHidden, inBody |-> inBody,
   value |-> value, focusL |-> focusL, keydownL |-> keydownL,
   activeElement |-> activeElement, cssHides |-> FALSE,
   cbLog |-> cbLog, fired |-> fired,
   cbBody |-> cbBody, heard |-> heard, shown |-> shown,
   threw |-> FALSE, reported |-> FALSE, prevented |-> FALSE, trace |-> << >>]

NoListeners == [n \in {"close", "open", "ready"} |-> << >>]
NoEvent == [type |-> "none", target |-> Null, which |-> 0, shiftKey |-> FALSE]

\* an OverlayDialog that was not constructed yet
OverlayIds == 0 .. (MaxOverlays - 1)
NoOverlay ==
  [made |-> FALSE, id |-> Page, actions |-> << >>, actionLabels |-> << >>,
   dialog |-> FALSE, attached |-> FALSE,
   created |-> FALSE, isOpen |-> FALSE, display |-> "none", htmlOverflow |-> "",
   reverseWrappingPointId |-> "null"]
NoInput == [type |-> "none", id |-> Page, index |-> 0, threw |-> FALSE]

\* ------------------------------------------------------------ DOM helpers
Created(s, d) == s.kind[d] # "none"

HasChild(s, d, n) == \E i \in 1 .. Len(Children(s.kind[d])) : Children(s.kind[d])[i].name = n

\* the element exists in the markup of its (created) dialog
Exists(s, e) ==
  /\ IsDialogEl(e)
  /\ Created(s, e[1])
  /\ (e[2] = "root" \/ HasChild(s, e[1], e[2]))

\* the root (and so its subtree) has a box: offsetWidth etc. are non-zero
Rendered(s, d) == s.inBody[d] /\ ~(s.cssHides /\ s.ariaHidden[d])

\* the element has a box: the root if it is rendered, a control if the root is
\* rendered and the stylesheet displays the controls
Visible(s, e) == Rendered(s, e[1]) /\ (e[2] = "root" \/ s.shown[e[1]])

\* element.focus() has an effect
Focusable(s, e) ==
  IF e = P THEN TRUE
  ELSE IF IsDialogEl(e) THEN Exists(s, e) /\ Visible(s, e)
  ELSE FALSE

\* this.$el.contains(e)
Contains(s, d, e) == e[1] = d

\* e.closest('[aria-modal="true"]') is not null: every root carries aria-modal
closestAriaModal(e) == IsDialogEl(e)

RECURSIVE SelectSeq2(_, _, _)
SelectSeq2(sq, d, keep) ==
  IF sq = << >> THEN << >>
  ELSE IF (Head(sq) = d) = keep THEN <<Head(sq)>> \o SelectSeq2(Tail(sq), d, keep)
  ELSE SelectSeq2(Tail(sq), d, keep)

Without(sq, d) == SelectSeq2(sq, d, FALSE)
InSeq(sq, d) == \E i \in 1 .. Len(sq) : sq[i] = d
\* addEventListener: the same listener is registered once
AddListener(sq, d) == IF InSeq(sq, d) THEN sq ELSE Append(sq, d)

\* this.$el.querySelector('[autofocus]') || this.$el
autofocusOrRoot(s, d) ==
  LET ch == Children(s.kind[d])
      idx == {i \in 1 .. Len(ch) : ch[i].autofocus}
  IN IF idx = {} THEN El(d, "root")
     ELSE El(d, ch[CHOOSE i \in idx : \A j \in idx : i <= j].name)

\* ---------------------------------------------------------------- focus
RECURSIVE focus(_, _)
RECURSIVE dispatchFocus(_, _, _, _)

\* _focusOnDialog
focusOnDialog(s, d) == focus(s, autofocusOrRoot(s, d))

\* _focusListener
focusListener(s, d, target) ==
  IF s.isOpen[d] /\ ~closestAriaModal(target) THEN focusOnDialog(s, d) ELSE s

\* the capturing focus listeners of body, those registered when the event is
\* dispatched and not removed since, in registration order
dispatchFocus(s, target, L, i) ==
  IF i > Len(L) THEN s
  ELSE dispatchFocus(IF InSeq(s.focusL, L[i]) THEN focusListener(s, L[i], target) ELSE s,
                     target, L, i + 1)

\* element.focus(): nothing for an element that cannot take focus or has it
focus(s, e) ==
  IF ~Focusable(s, e) \/ e = s.activeElement THEN s
  ELSE dispatchFocus([s EXCEPT !.activeElement = e], e, s.focusL, 1)

\* ------------------------------------------------------ lifecycle events
RECURSIVE close(_, _, _, _)
RECURSIVE fireEach(_, _, _, _, _, _)

\* the functions a page registers with on(): f notes its arguments and returns,
\* g notes them and calls close() on the instance
Listeners == {"f", "g"}

\* an effect of close() on instance d is appended to the trace
Mark(s, d, what) == [s EXCEPT !.trace = Append(@, <<d, what>>)]

\* listener(this.$el, event)
invoke(s, d, l, type, event) ==
  IF l = "g"
    THEN close([s EXCEPT !.heard[d] = Append(@, <<l, type, El(d, "root"), event>>)],
               d, NoEvent, FALSE)
    ELSE [s EXCEPT !.heard[d] = Append(@, <<l, type, El(d, "root"), event>>)]

\* listeners.forEach(...): the array read at the start of _fire, in order; an
\* exception of a listener ends the loop
fireEach(s, d, type, event, L, i) ==
  IF i > Len(L) \/ s.threw THEN s
  ELSE fireEach(invoke(s, d, L[i], type, event), d, type, event, L, i + 1)

\* _fire: the listeners registered for the type are invoked in order with
\* (this.$el, event); the emission is recorded
fire(s, d, type, event) ==
  fireEach([s EXCEPT !.fired[d] = Append(@, type)], d, type, event,
           s.listeners[d][type], 1)

\* mutant: a listener that is registered already is not registered again
onUnique(s, d, type, l) ==
  IF InSeq(s.listeners[d][type], l) THEN s
  ELSE [s EXCEPT !.listeners[d][type] = Append(@, l)]

\* on(type, listener)
on(s, d, type, l) == [s EXCEPT !.listeners[d][type] = Append(@, l)]

\* off(type, listener): the first occurrence is spliced out
off(s, d, type, l) ==
  LET sq == s.listeners[d][type]
      idx == {i \in 1 .. Len(sq) : sq[i] = l}
      index == IF idx = {} THEN 0 ELSE CHOOSE i \in idx : \A j \in idx : i <= j
  IN IF index >= 1
       THEN [s EXCEPT !.listeners[d][type] =
               [i \in 1 .. (Len(sq) - 1) |-> IF i < index THEN sq[i] ELSE sq[i + 1]]]
       ELSE s

\* ------------------------------------------------------------ construction
\* _initDOM: the next id, the markup, the root appended to body
initDOM(s, k, dv) ==
  LET d == s.num
  IN [s EXCEPT !.num = @ + 1,
               !.kind[d] = k,
               !.value[d] = IF k = "prompt" THEN InitialValue(dv) ELSE << >>,
               !.ariaHidden[d] = TRUE,
               !.inBody[d] = TRUE]

\* mutant: the listeners are attached and ready is not emitted
attachListenersSilent(s, d) == [s EXCEPT !.closerClick[d] = TRUE]

\* _attachListeners: a click listener on every closer, then ready
attachListeners(s, d) ==
  fire([s EXCEPT !.closerClick[d] = TRUE], d, EVENTS.Ready, NoEvent)

\* constructor(message, opts, cb, defaultValue)
constructor(s, k, hasCb, dv) ==
  attachListeners(initDOM([s EXCEPT !.isOpen[s.num] = FALSE,
                                    !.previousFocusElement[s.num] = Null,
                                    !.listeners[s.num] = NoListeners,
                                    !.cb[s.num] = hasCb], k, dv),
                  s.num)

\* ------------------------------------------------------------------- open
\* mutant: open() appends the root to body again
openRememberAppend(s, d) ==
  [s EXCEPT !.previousFocusElement[d] = s.activeElement, !.ariaHidden[d] = FALSE,
            !.inBody[d] = TRUE]

\* open, lines 615-616: the active element is remembered, aria-hidden removed
openRemember(s, d) ==
  [s EXCEPT !.previousFocusElement[d] = s.activeElement, !.ariaHidden[d] = FALSE]

\* mutant: open() does not attach the keydown listener
openAttachNoKeydown(s, d) ==
  [s EXCEPT !.focusL = AddListener(@, d),
            !.isOpen[d] = TRUE]

\* open, lines 622-625: the focus and keydown listeners are attached
openAttach(s, d) ==
  [s EXCEPT !.focusL = AddListener(@, d),
            !.keydownL = AddListener(@, d),
            !.isOpen[d] = TRUE]

\* mutant: open() without the guard for an open instance
openUnguarded(s, d, event) ==
  fire(openAttach(focusOnDialog(openRemember(s, d), d), d), d, EVENTS.Open, event)

open(s, d, event) ==
  IF s.isOpen[d] THEN s
  ELSE fire(openAttach(focusOnDialog(openRemember(s, d), d), d), d, EVENTS.Open, event)

\* ------------------------------------------------------------------ close
\* mutant: any closer counts as OK
isOkButtonEventAnyCloser(s, e) ==
  IF e.type # "none" /\ IsDialogEl(e.target)
    THEN LET ch == Children(s.kind[e.target[1]])
         IN \E i \in 1 .. Len(ch) : ch[i].name = e.target[2] /\ ch[i].closer
    ELSE FALSE

\* CPDialog._isOkButtonEvent: the event target carries the primary-button class
isOkButtonEvent(s, e) ==
  IF e.type # "none" /\ IsDialogEl(e.target)
    THEN LET ch == Children(s.kind[e.target[1]])
         IN \E i \in 1 .. Len(ch) : ch[i].name = e.target[2] /\ ch[i].primary
    ELSE FALSE

\* the argument list _executeCallback passes to _cb
callbackArgs(s, d, e) ==
  CASE s.kind[d] = "alert" -> <<"void">>
    [] s.kind[d] = "confirm" -> IF isOkButtonEvent(s, e) THEN <<"true">> ELSE <<"false">>
    [] OTHER -> IF isOkButtonEvent(s, e) THEN <<"string", s.value[d]>> ELSE <<"null">>

\* the body of the function passed as cb: it returns, or it calls close() on
\* the instance, or it registers g for the close event; then it may throw
cbRun(s, d, cbThrows) ==
  CASE s.cbBody[d] = "close" -> close(s, d, NoEvent, cbThrows)
    [] s.cbBody[d] = "listen" -> on(s, d, EVENTS.Close, "g")
    [] OTHER -> s

cbReturn(s, d, cbThrows) ==
  IF s.threw THEN s
  ELSE IF cbThrows THEN [s EXCEPT !.threw = TRUE]
  ELSE Mark(s, d, "returned")

\* _executeCallback: _cb is the caller's function and may throw
executeCallback(s, d, e, cbThrows) ==
  cbReturn(cbRun(Mark([s EXCEPT !.cbLog[d] = Append(@, callbackArgs(s, d, e))],
                      d, "callback"), d, cbThrows), d, cbThrows)

\* mutant: this.$el.remove(), which never throws
removeChildNeverThrows(s, d) == FALSE

\* document.body.removeChild(this.$el) throws NotFoundError for a root that is
\* not a child of body
removeChildThrows(s, d) == ~s.inBody[d]

removeChild(s, d) ==
  IF removeChildThrows(s, d) THEN [s EXCEPT !.threw = TRUE]
  ELSE Mark([s EXCEPT !.inBody[d] = FALSE,
                      !.activeElement = IF Contains(s, d, @) THEN Body ELSE @],
            d, "removed")

\* close, lines 640-645: aria-hidden is set, then the remembered element is
\* focused (the listeners are still attached and _isOpen is still true)
closeRestoreFocus(s, d) ==
  IF s.previousFocusElement[d] # Null
    THEN focus(Mark(s, d, "refocus"), s.previousFocusElement[d])
    ELSE s

\* mutant: the listeners are removed and _isOpen is left as it is
closeDetachStillOpen(s, d) ==
  [s EXCEPT !.focusL = Without(@, d),
            !.keydownL = Without(@, d),
            !.closerClick[d] = FALSE,
            !.listeners[d] = NoListeners,
            !.trace = @ \o << <<d, "detached">>, <<d, "registry cleared">> >>]

\* close, lines 648-657: the listeners are removed, the registry is cleared
closeDetach(s, d) ==
  [s EXCEPT !.focusL = Without(@, d),
            !.keydownL = Without(@, d),
            !.closerClick[d] = FALSE,
            !.listeners[d] = NoListeners,
            !.isOpen[d] = FALSE,
            !.trace = @ \o << <<d, "detached">>, <<d, "registry cleared">>,
                              <<d, "marked closed">> >>]

\* close, lines 663-665
closeCallback(s, d, event, cbThrows) ==
  IF ~s.threw /\ s.cb[d] THEN executeCallback(s, d, event, cbThrows) ELSE s

\* mutant: close is emitted also after the callback threw
closeFireAlways(s, d, event) ==
  fire(Mark(s, d, "close emitted"), d, EVENTS.Close, event)

\* close, line 667
closeFire(s, d, event) ==
  IF s.threw THEN s ELSE fire(Mark(s, d, "close emitted"), d, EVENTS.Close, event)

\* mutant: close() without the guard for an instance that is not open
closeUnguarded(s, d, event, cbThrows) ==
  closeFire(
    closeCallback(
      removeChild(
        closeDetach(
          closeRestoreFocus(Mark([s EXCEPT !.ariaHidden[d] = TRUE],
                                 d, "aria-hidden"), d), d), d),
      d, event, cbThrows),
    d, event)

close(s, d, event, cbThrows) ==
  IF ~s.isOpen[d] THEN s
  ELSE closeFire(
         closeCallback(
           removeChild(
             closeDetach(
               closeRestoreFocus(Mark([s EXCEPT !.ariaHidden[d] = TRUE],
                                      d, "aria-hidden"), d), d), d),
           d, event, cbThrows),
         d, event)

\* ---------------------------------------------------------------- keydown
\* ACPDialog.$$(TO_FOCUS_ON, this.$el) filtered to the elements that have a
\* box: the input and the buttons of a rendered dialog, in document order (the
\* root has tabindex="-1" and does not match)
focusableChildren(s, d) ==
  LET ch == Children(s.kind[d])
  IN IF Rendered(s, d) /\ s.shown[d]
       THEN [i \in 1 .. Len(ch) |-> El(d, ch[i].name)] ELSE << >>

\* Array.indexOf, 1-based here: 0 stands for JavaScript's -1
indexOf(sq, e) ==
  IF \E i \in 1 .. Len(sq) : sq[i] = e
    THEN CHOOSE i \in 1 .. Len(sq) : sq[i] = e /\ \A j \in 1 .. (i - 1) : sq[j] # e
    ELSE 0

\* mutant: the wrap of Tab forgets preventDefault, so the browser moves on
tabKeydownListenerNoPrevent(s, d, event) ==
  LET fc == focusableChildren(s, d)
      focusedItemIndex == indexOf(fc, s.activeElement)
  IN IF event.shiftKey /\ focusedItemIndex = 1
       THEN [focus(s, fc[Len(fc)]) EXCEPT !.prevented = TRUE]
     ELSE IF ~event.shiftKey /\ focusedItemIndex = Len(fc)
       THEN IF Len(fc) = 0 THEN [s EXCEPT !.threw = TRUE]
            ELSE focus(s, fc[1])
     ELSE s

\* _tabKeydownListener; focusableChildren[k].focus() on an empty list is a
\* TypeError
tabKeydownListener(s, d, event) ==
  LET fc == focusableChildren(s, d)
      focusedItemIndex == indexOf(fc, s.activeElement)
  IN IF event.shiftKey /\ focusedItemIndex = 1
       THEN [focus(s, fc[Len(fc)]) EXCEPT !.prevented = TRUE]
     ELSE IF ~event.shiftKey /\ focusedItemIndex = Len(fc)
       THEN IF Len(fc) = 0 THEN [s EXCEPT !.threw = TRUE]
            ELSE [focus(s, fc[1]) EXCEPT !.prevented = TRUE]
     ELSE s

\* _keydownListener
keydownListener(s, d, event, cbThrows) ==
  IF ~Contains(s, d, s.activeElement) THEN s
  ELSE IF s.isOpen[d]
    THEN CASE event.which = TAB -> tabKeydownListener(s, d, event)
           [] event.which = ESC ->
                close([s EXCEPT !.prevented = TRUE], d, event, cbThrows)
           [] OTHER -> s
  ELSE s

\* the keydown listeners of document: those registered when the event is
\* dispatched and not removed since, in registration order; an exception of a
\* listener is reported and the next listener runs
RECURSIVE dispatchKeydown(_, _, _, _, _)
report(s) == [s EXCEPT !.reported = @ \/ s.threw, !.threw = FALSE]

dispatchKeydown(s, event, L, i, cbThrows) ==
  IF i > Len(L) THEN s
  ELSE dispatchKeydown(
         report(IF InSeq(s.keydownL, L[i])
                  THEN keydownListener(s, L[i], event, cbThrows) ELSE s),
         event, L, i + 1, cbThrows)

\* --------------------------------------- the browser's sequential navigation
\* the elements of the document in tree order
RECURSIVE DocOrderFrom(_, _)
DocOrderFrom(s, d) ==
  IF d >= MaxDialogs THEN << >>
  ELSE (IF Created(s, d) /\ s.inBody[d]
          THEN <<El(d, "root")>> \o [i \in 1 .. Len(Children(s.kind[d])) |->
                                        El(d, Children(s.kind[d])[i].name)]
          ELSE << >>) \o DocOrderFrom(s, d + 1)

DocOrder(s) == <<Body, P>> \o DocOrderFrom(s, 0)

\* in the tab order: focusable and not tabindex="-1"
Tabbable(s, e) == Focusable(s, e) /\ e[2] # "root"

\* the element Tab (Shift+Tab) moves to from the active element; Body stands
\* for leaving the page content
NextTabStop(s, shift) ==
  LET dor == DocOrder(s)
      at == indexOf(dor, s.activeElement)
      after == {i \in 1 .. Len(dor) : i > at /\ Tabbable(s, dor[i])}
      before == {i \in 1 .. Len(dor) : (at = 1 \/ i < at) /\ Tabbable(s, dor[i])}
  IN IF ~shift
       THEN IF after = {} THEN Body
            ELSE dor[CHOOSE i \in after : \A j \in after : i <= j]
       ELSE IF before = {} THEN Body
            ELSE dor[CHOOSE i \in before : \A j \in before : i >= j]

\* the default action of a Tab keydown that no listener prevented
moveTo(s, e) ==
  IF e = Body THEN [s EXCEPT !.activeElement = Body] ELSE focus(s, e)

tabDefault(s, event) ==
  IF event.which # TAB \/ s.prevented THEN s
  ELSE moveTo(s, NextTabStop(s, event.shiftKey))

\* ---------------------------------------------------------------- actions
Set(s, le) ==
  /\ num' = s.num
  /\ kind' = s.kind
  /\ cb' = s.cb
  /\ isOpen' = s.isOpen
  /\ previousFocusElement' = s.previousFocusElement
  /\ listeners' = s.listeners
  /\ closerClick' = s.closerClick
  /\ ariaHidden' = s.ariaHidden
  /\ inBody' = s.inBody
  /\ value' = s.value
  /\ focusL' = s.focusL
  /\ keydownL' = s.keydownL
  /\ activeElement' = s.activeElement
  /\ cbLog' = s.cbLog
  /\ fired' = s.fired
  /\ lastEvent' = le
  /\ cbBody' = s.cbBody
  /\ heard' = s.heard
  /\ shown' = s.shown
  /\ UNCHANGED ovars

\* the last thing handled was no event that a dialog acted on
NoActed == [type |-> "none", which |-> 0, shiftKey |-> FALSE, target |-> Null,
              defaultPrevented |-> FALSE, threw |-> FALSE]

\* the state with the stylesheet that is in force
Css(css) == [Cur EXCEPT !.cssHides = css]

Init ==
  /\ num = 0
  /\ kind = [d \in DialogIds |-> "none"]
  /\ cb = [d \in DialogIds |-> FALSE]
  /\ isOpen = [d \in DialogIds |-> FALSE]
  /\ previousFocusElement = [d \in DialogIds |-> Null]
  /\ listeners = [d \in DialogIds |-> NoListeners]
  /\ closerClick = [d \in DialogIds |-> FALSE]
  /\ ariaHidden = [d \in DialogIds |-> TRUE]
  /\ inBody = [d \in DialogIds |-> FALSE]
  /\ value = [d \in DialogIds |-> << >>]
  /\ focusL = << >>
  /\ keydownL = << >>
  /\ activeElement \in {Body, P}
  /\ cbLog = [d \in DialogIds |-> << >>]
  /\ fired = [d \in DialogIds |-> << >>]
  /\ lastEvent = NoActed
  /\ cbBody = [d \in DialogIds |-> "return"]
  /\ heard = [d \in DialogIds |-> << >>]
  /\ shown = [d \in DialogIds |-> TRUE]
  /\ script = "none"
  /\ dialogNum = 0
  /\ dialogs = [d \in OverlayIds |-> NoOverlay]
  /\ overflow = ""
  /\ pageOverflow = ""
  /\ focused = Body
  /\ onOKCalls = [d \in OverlayIds |-> 0]
  /\ timers = {}
  /\ lastInput = NoInput

\* Dialog.alert / Dialog.confirm / Dialog.prompt: new XDialog(...).open()
Factory(k, hasCb, dv) ==
  /\ num < MaxDialogs
  /\ (k # "prompt" => dv = Undefined)
  /\ Set(open(constructor(Cur, k, hasCb, dv), num, NoEvent), NoActed)

\* instance.open() called by the page
CallOpen(d) ==
  /\ Created(Cur, d)
  /\ Len(fired[d]) < MaxFired
  /\ Set(open(Cur, d, NoEvent), NoActed)

\* instance.close() called by the page
CallClose(d, css, cbThrows) ==
  /\ Created(Cur, d)
  /\ Set(close(Css(css), d, NoEvent, cbThrows), NoActed)

ClickEvent(e) == [type |-> "click", target |-> e, which |-> 0, shiftKey |-> FALSE]
KeydownEvent(e, which, shiftKey) ==
  [type |-> "keydown", target |-> e, which |-> which, shiftKey |-> shiftKey]

\* the click listener of a closer is this._close
clickListeners(s, d, event, cbThrows) ==
  IF s.closerClick[d] THEN close(s, d, event, cbThrows) ELSE s

\* the keydown listeners, then the default action of the key
keydown(s, event, cbThrows) ==
  tabDefault(dispatchKeydown(s, event, s.keydownL, 1, cbThrows), event)

\* the record of an event that a dialog acted on
Acted(s, event, acted) ==
  IF acted
    THEN [type |-> event.type, which |-> event.which, shiftKey |-> event.shiftKey,
          target |-> event.target, defaultPrevented |-> s.prevented,
          threw |-> s.reported \/ s.threw]
    ELSE NoActed

SetClick(s, event, acted) == Set(s, Acted(s, event, acted))
SetKey(s, event) == Set(s, Acted(s, event, s.prevented \/ s.reported))

\* a click on the closer n of dialog d; the browser may move focus to the
\* clicked button first
Click(d, n, focusOnClick, css, cbThrows) ==
  /\ Created(Cur, d)
  /\ inBody[d]
  /\ \E i \in 1 .. Len(Children(kind[d])) :
        Children(kind[d])[i].name = n /\ Children(kind[d])[i].closer
  /\ SetClick(clickListeners(IF focusOnClick THEN focus(Css(css), El(d, n)) ELSE Css(css),
                             d, ClickEvent(El(d, n)), cbThrows),
              ClickEvent(El(d, n)), closerClick[d])

\* a keydown, targeted at the active element
KeyDown(which, shiftKey, css, cbThrows) ==
  SetKey(keydown(Css(css), KeydownEvent(activeElement, which, shiftKey), cbThrows),
         KeydownEvent(activeElement, which, shiftKey))

\* focus moved by the user (a click on the element) or by a script
UserFocus(e) ==
  /\ Focusable(Cur, e)
  /\ e # activeElement
  /\ Set(focus(Cur, e), NoActed)

\* a click on something that cannot take focus: the active element loses it
Blur ==
  /\ activeElement # Body
  /\ Set([Cur EXCEPT !.activeElement = Body], NoActed)

\* the user types into the focused text input
Type(d, v) ==
  /\ Created(Cur, d)
  /\ kind[d] = "prompt"
  /\ activeElement = El(d, "input")
  /\ value[d] # v
  /\ Set([Cur EXCEPT !.value[d] = v], NoActed)

\* the pages of this specification pass a callback function to the factories,
\* and their callbacks return normally
Callbacks == {TRUE}
Throws == {FALSE}

Next ==
  \/ \E k \in Kinds, hasCb \in Callbacks, dv \in DefaultValues : Factory(k, hasCb, dv)
  \/ \E d \in DialogIds : CallOpen(d)
  \/ \E d \in DialogIds, css \in BOOLEAN, cbThrows \in Throws : CallClose(d, css, cbThrows)
  \/ \E d \in DialogIds, n \in ChildNames, f \in BOOLEAN, css \in BOOLEAN,
        cbThrows \in Throws : Click(d, n, f, css, cbThrows)
  \/ \E which \in {TAB, ESC, OTHERKEY}, shiftKey \in BOOLEAN, css \in BOOLEAN,
        cbThrows \in Throws :
        (shiftKey => which = TAB) /\ KeyDown(which, shiftKey, css, cbThrows)
  \/ \E e \in {P} \cup (DialogIds \X Names) : UserFocus(e)
  \/ Blur
  \/ \E d \in DialogIds, v \in TypedValues : Type(d, v)

Spec == Init /\ [][Next]_vars

\* ------------------------------------------------ a page that uses on()/off()
\* what the function passed as cb does
CbBodies == {"return", "close", "listen"}

\* a factory call with a callback of the given body (or with no callback)
FactoryWith(k, hasCb, dv, body) ==
  /\ num < MaxPageDialogs
  /\ (k # "prompt" => dv = Undefined)
  /\ (~hasCb => body = "return")
  /\ Set(open(constructor([Cur EXCEPT !.cbBody[num] = body], k, hasCb, dv),
              num, NoEvent), NoActed)

\* the events this page listens to
ListenedTypes == {"close", "open"}

Registered(d) ==
  Len(listeners[d]["close"]) + Len(listeners[d]["open"]) + Len(listeners[d]["ready"])

\* instance.on(type, l) called by the page
On(d, type, l) ==
  /\ Created(Cur, d)
  /\ Registered(d) < MaxListeners
  /\ Set(on(Cur, d, type, l), NoActed)

\* instance.off(type, l) called by the page
Off(d, type, l) ==
  /\ Created(Cur, d)
  /\ InSeq(listeners[d][type], l)
  /\ Set(off(Cur, d, type, l), NoActed)

\* the page's stylesheet stops displaying the controls of the dialog; the
\* browser may move the focus from a control that lost its box to body
HideControls(d, fixup) ==
  /\ Created(Cur, d)
  /\ inBody[d]
  /\ shown[d]
  /\ Set([Cur EXCEPT !.shown[d] = FALSE,
                     !.activeElement =
                        IF fixup /\ @[1] = d /\ @[2] # "root" THEN Body ELSE @],
         NoActed)

NextPage ==
  \/ \E k \in Kinds, hasCb \in BOOLEAN, dv \in DefaultValues, body \in CbBodies :
        FactoryWith(k, hasCb, dv, body)
  \/ \E d \in DialogIds : CallOpen(d)
  \/ \E d \in DialogIds, css \in BOOLEAN, cbThrows \in Throws : CallClose(d, css, cbThrows)
  \/ \E d \in DialogIds, n \in ChildNames, f \in BOOLEAN, css \in BOOLEAN,
        cbThrows \in Throws : Click(d, n, f, css, cbThrows)
  \/ \E which \in {TAB, ESC, OTHERKEY}, shiftKey \in BOOLEAN, css \in BOOLEAN,
        cbThrows \in Throws :
        (shiftKey => which = TAB) /\ KeyDown(which, shiftKey, css, cbThrows)
  \/ \E e \in {P} \cup (DialogIds \X Names) : UserFocus(e)
  \/ \E d \in DialogIds, type \in ListenedTypes, l \in Listeners : On(d, type, l)
  \/ \E d \in DialogIds, type \in ListenedTypes, l \in Listeners : Off(d, type, l)
  \/ \E d \in DialogIds, fixup \in BOOLEAN : HideControls(d, fixup)

SpecPage == Init /\ [][NextPage]_vars

\* --------------------------------------- a page whose callback may throw
\* whether the function passed as cb throws when it is called
CallbackThrows == BOOLEAN

NextThrow ==
  \/ \E k \in Kinds, hasCb \in BOOLEAN, dv \in DefaultValues, body \in CbBodies :
        FactoryWith(k, hasCb, dv, body)
  \/ \E d \in DialogIds : CallOpen(d)
  \/ \E d \in DialogIds, css \in BOOLEAN, cbThrows \in CallbackThrows :
        CallClose(d, css, cbThrows)
  \/ \E d \in DialogIds, n \in ChildNames, f \in BOOLEAN, css \in BOOLEAN,
        cbThrows \in CallbackThrows : Click(d, n, f, css, cbThrows)
  \/ \E which \in {TAB, ESC, OTHERKEY}, shiftKey \in BOOLEAN, css \in BOOLEAN,
        cbThrows \in CallbackThrows :
        (shiftKey => which = TAB) /\ KeyDown(which, shiftKey, css, cbThrows)
  \/ \E e \in {P} \cup (DialogIds \X Names) : UserFocus(e)

SpecThrow == Init /\ [][NextThrow]_vars

\* ====================================================== the older variant
\* Dialog.showAlert / Dialog.showConfirm and OverlayDialog, in its two copies:
\* src/unnamed/part_000 (lines 1-447) and the static resource dialog.js
Scripts == {"part_000", "dialog.js"}

\* what a page passes as onOK
OnOKs == {"function", "undefined"}

\* the state of the page as one record, plus the outcome of the running handler
Old ==
  [script |-> script, num |-> dialogNum, dialogs |-> dialogs,
   overflow |-> overflow, focused |-> focused, calls |-> onOKCalls,
   timers |-> timers, threw |-> FALSE]

\* mutant: getNextId returns the same id every time
getNextIdStuck(o) == 0

\* Dialog.getNextId: the id that "simpleDialog" + Dialog.num++ returns
getNextId(o) == o.num

\* Dialog.registerDialog
registerDialog(o, dialog) == [o EXCEPT !.dialogs[dialog.id] = dialog]

\* Dialog.getDialogById
getDialogById(o, id) == o.dialogs[id]

\* Dialog.createSimpleDialog: new OverlayDialog(config), registered under its id
createSimpleDialog(o, onOK) ==
  registerDialog([o EXCEPT !.num = @ + 1],
                 [NoOverlay EXCEPT !.made = TRUE,
                    !.id = getNextId(o),
                    !.actions = IF onOK = "undefined" THEN << >> ELSE <<onOK, "null">>,
                    !.actionLabels = IF onOK = "undefined" THEN <<"ok">>
                                     ELSE <<"ok", "cancel">>])

\* the ids of the elements createDialogElement and getContent write
ButtonId(i) == IF i = 0 THEN "button0" ELSE "button1"
HasElement(o, e) ==
  /\ e[1] \in OverlayIds
  /\ o.dialogs[e[1]].dialog
  /\ o.dialogs[e[1]].attached
  /\ \/ e[2] \in {"FocusPoint", "X", "BlurCatch"}
     \/ \E i \in 0 .. (Len(o.dialogs[e[1]].actionLabels) - 1) : e[2] = ButtonId(i)

\* the element has a box, so focus() moves the focus to it
Displayed(o, e) == HasElement(o, e) /\ o.dialogs[e[1]].display = "block"

RECURSIVE oldFocus(_, _)
RECURSIVE setPrimaryFocus(_, _, _, _)

\* setFocusIfNotDisabled(elementId): no element of the dialogs is disabled
setFocusIfNotDisabled(o, e) ==
  IF ~HasElement(o, e) THEN [o EXCEPT !.threw = TRUE] ELSE oldFocus(o, e)

\* OverlayDialog.setPrimaryFocus(wrapping, reverse); dialog.js has no reverse
\* wrapping point
setPrimaryFocus(o, d, wrapping, reverse) ==
  IF wrapping
    THEN IF o.script = "part_000" /\ reverse
            /\ o.dialogs[d].reverseWrappingPointId # "null"
           THEN setFocusIfNotDisabled(o, El(d, o.dialogs[d].reverseWrappingPointId))
         ELSE IF o.dialogs[d].dialog
           THEN setFocusIfNotDisabled(o, El(d, "X"))
         ELSE o
    ELSE IF o.dialogs[d].dialog
           THEN setFocusIfNotDisabled(o, El(d, "FocusPoint"))
         ELSE o

\* mutant: the sentinels have no focus listener
onFocusNoWrap(o, e) == o

\* the focus listeners createDialog adds to the blur catch and to the focus
\* point (in dialog.js the focus point has an onfocus attribute instead)
onFocus(o, e) ==
  CASE e[2] = "BlurCatch" -> setPrimaryFocus(o, e[1], TRUE, FALSE)
    [] e[2] = "FocusPoint" ->
         IF o.script = "part_000" THEN setPrimaryFocus(o, e[1], TRUE, TRUE)
         ELSE oldFocus(o, El(e[1], "X"))
    [] OTHER -> o

\* element.focus()
oldFocus(o, e) ==
  IF ~Displayed(o, e) \/ e = o.focused THEN o
  ELSE onFocus([o EXCEPT !.focused = e], e)

\* createDialog and createContent: the element is appended, the listeners are
\* added, the last button becomes the reverse wrapping point
createDialog(o, d) ==
  [o EXCEPT !.dialogs[d].dialog = TRUE,
            !.dialogs[d].attached = TRUE,
            !.dialogs[d].created = TRUE,
            !.dialogs[d].reverseWrappingPointId =
               IF o.script = "part_000"
                 THEN ButtonId(Len(o.dialogs[d].actionLabels) - 1) ELSE "null"]

\* show, up to this.isOpen = true
showDisplay(o, d) ==
  [o EXCEPT !.dialogs[d].htmlOverflow = o.overflow,
            !.overflow = "hidden",
            !.dialogs[d].display = "block",
            !.dialogs[d].isOpen = TRUE]

\* OverlayDialog.show: part_000 focuses at once, dialog.js after a 1 ms timer
show(o, d) ==
  IF o.script = "part_000"
    THEN setPrimaryFocus(showDisplay(IF o.dialogs[d].dialog THEN o ELSE createDialog(o, d), d),
                         d, FALSE, FALSE)
    ELSE [showDisplay(IF o.dialogs[d].dialog THEN o ELSE createDialog(o, d), d)
            EXCEPT !.timers = @ \cup {d}]

\* mutant: hide() leaves isOpen as it is
hideStillOpen(o, d) ==
  [o EXCEPT !.dialogs[d].display = "none",
            !.overflow = o.dialogs[d].htmlOverflow,
            !.dialogs[d].htmlOverflow = ""]

\* OverlayDialog.hide
hide(o, d) ==
  [o EXCEPT !.dialogs[d].display = "none",
            !.overflow = o.dialogs[d].htmlOverflow,
            !.dialogs[d].htmlOverflow = "",
            !.dialogs[d].isOpen = FALSE]

\* OverlayDialog.cancel
cancel(o, d) == hide(o, d)

\* this.actions[index]() when it is a function
callAction(o, d, index) ==
  IF index + 1 <= Len(o.dialogs[d].actions) /\ o.dialogs[d].actions[index + 1] = "function"
    THEN [o EXCEPT !.calls[d] = @ + 1]
    ELSE o

\* OverlayDialog.doAction(index)
doAction(o, d, index) == callAction(hide(o, d), d, index)

\* OverlayDialog.handleKeyPress (part_000 only)
handleKeyPress(o, d, keyCode) ==
  IF o.dialogs[d].isOpen /\ keyCode = ESC THEN cancel(o, d) ELSE o

\* the keydown listeners createDialog added to document, one per created
\* dialog, in the order of creation; dialog.js adds none
RECURSIVE oldKeydown(_, _, _)
oldKeydown(o, keyCode, d) ==
  IF d >= MaxOverlays \/ o.script # "part_000" THEN o
  ELSE oldKeydown(IF o.dialogs[d].dialog THEN handleKeyPress(o, d, keyCode) ELSE o,
                  keyCode, d + 1)

\* the keyup listeners dialog.js adds to body: an open dialog that does not
\* hold the focus takes it back
keyupListener(o, d) ==
  IF o.dialogs[d].isOpen /\ o.focused[1] # d
    THEN setPrimaryFocus(o, d, FALSE, FALSE) ELSE o

RECURSIVE oldKeyup(_, _)
oldKeyup(o, d) ==
  IF d >= MaxOverlays \/ o.script # "dialog.js" THEN o
  ELSE oldKeyup(IF o.dialogs[d].dialog THEN keyupListener(o, d) ELSE o, d + 1)

\* the browser may move the focus from an element that lost its box to body
fixFocus(o, fixup) ==
  IF fixup /\ o.focused # Body /\ ~Displayed(o, o.focused)
    THEN [o EXCEPT !.focused = Body] ELSE o

\* ----------------------------------------------- actions of the older variant
SetOld(o, input) ==
  /\ script' = o.script
  /\ dialogNum' = o.num
  /\ dialogs' = o.dialogs
  /\ overflow' = o.overflow
  /\ pageOverflow' = pageOverflow
  /\ focused' = o.focused
  /\ onOKCalls' = o.calls
  /\ timers' = o.timers
  /\ lastInput' = [input EXCEPT !.threw = o.threw]
  /\ UNCHANGED dvars

\* the values the page may have given to the overflow style of <html>
Overflows == {"", "scroll"}

\* the page has loaded one of the two copies; nothing is shown yet
InitOld ==
  /\ num = 0
  /\ kind = [d \in DialogIds |-> "none"]
  /\ cb = [d \in DialogIds |-> FALSE]
  /\ isOpen = [d \in DialogIds |-> FALSE]
  /\ previousFocusElement = [d \in DialogIds |-> Null]
  /\ listeners = [d \in DialogIds |-> NoListeners]
  /\ closerClick = [d \in DialogIds |-> FALSE]
  /\ ariaHidden = [d \in DialogIds |-> TRUE]
  /\ inBody = [d \in DialogIds |-> FALSE]
  /\ value = [d \in DialogIds |-> << >>]
  /\ focusL = << >>
  /\ keydownL = << >>
  /\ activeElement = Body
  /\ cbLog = [d \in DialogIds |-> << >>]
  /\ fired = [d \in DialogIds |-> << >>]
  /\ lastEvent = NoActed
  /\ cbBody = [d \in DialogIds |-> "return"]
  /\ heard = [d \in DialogIds |-> << >>]
  /\ shown = [d \in DialogIds |-> TRUE]
  /\ script \in Scripts
  /\ dialogNum = 0
  /\ dialogs = [d \in OverlayIds |-> NoOverlay]
  /\ pageOverflow \in Overflows
  /\ overflow = pageOverflow
  /\ focused = Body
  /\ onOKCalls = [d \in OverlayIds |-> 0]
  /\ timers = {}
  /\ lastInput = NoInput

\* Dialog.showAlert(message)
ShowAlert ==
  /\ dialogNum < MaxOverlays
  /\ SetOld(show(createSimpleDialog(Old, "undefined"), getNextId(Old)),
            [type |-> "showAlert", id |-> getNextId(Old), index |-> 0, threw |-> FALSE])

\* Dialog.showConfirm(message, onOK)
ShowConfirm(onOK) ==
  /\ dialogNum < MaxOverlays
  /\ SetOld(show(createSimpleDialog(Old, onOK), getNextId(Old)),
            [type |-> "showConfirm", id |-> getNextId(Old), index |-> 0, threw |-> FALSE])

\* a click on button index of a displayed dialog: its onclick attribute calls
\* Dialog.getDialogById(id).doAction(index)
ClickButton(d, index, fixup) ==
  /\ Displayed(Old, El(d, ButtonId(index)))
  /\ SetOld(fixFocus(doAction(Old, getDialogById(Old, d).id, index), fixup),
            [type |-> "button", id |-> d, index |-> index, threw |-> FALSE])

\* a click on the close X of a displayed dialog: dlg.cancel()
ClickX(d, fixup) ==
  /\ Displayed(Old, El(d, "X"))
  /\ SetOld(fixFocus(cancel(Old, getDialogById(Old, d).id), fixup), [type |-> "x", id |-> d, index |-> 0, threw |-> FALSE])

\* a key goes down
OldKeyDown(keyCode, fixup) ==
  /\ script \in Scripts
  /\ SetOld(fixFocus(oldKeydown(Old, keyCode, 0), fixup),
            [type |-> "keydown", id |-> Page, index |-> keyCode, threw |-> FALSE])

\* a key goes up
OldKeyUp ==
  /\ script \in Scripts
  /\ lastInput.type = "keydown"
  /\ SetOld(oldKeyup(Old, 0), [type |-> "keyup", id |-> Page, index |-> lastInput.index, threw |-> FALSE])

\* the 1 ms timer of show() in dialog.js fires: setPrimaryFocus()
Timer(d) ==
  /\ d \in timers
  /\ SetOld(setPrimaryFocus([Old EXCEPT !.timers = @ \ {d}], d, FALSE, FALSE),
            [type |-> "timer", id |-> d, index |-> 0, threw |-> FALSE])

\* Dialog.getDialogById(id).show() called by the page for a dialog it created
Show(d) ==
  /\ dialogs[d].made
  /\ onOKCalls[d] < MaxOKCalls
  /\ SetOld(show(Old, getDialogById(Old, d).id),
            [type |-> "show", id |-> d, index |-> 0, threw |-> FALSE])

\* the elements of a dialog that take focus, in document order
ElementNames == <<"FocusPoint", "X", "button0", "button1", "BlurCatch">>

\* focus arrives on an element of a displayed dialog, by Tab, Shift+Tab or a
\* click; its focus listeners run
FocusArrives(d, i) ==
  /\ Displayed(Old, El(d, ElementNames[i]))
  /\ focused # El(d, ElementNames[i])
  /\ SetOld(oldFocus(Old, El(d, ElementNames[i])),
            [type |-> "focus", id |-> d, index |-> i, threw |-> FALSE])

\* a script of the page removes the element of a dialog from the document;
\* the focus inside it goes to body
RemoveElement(d) ==
  /\ dialogs[d].dialog
  /\ dialogs[d].attached
  /\ SetOld([Old EXCEPT !.dialogs[d].attached = FALSE,
                        !.focused = IF @[1] = d THEN Body ELSE @],
            [type |-> "remove", id |-> d, index |-> 0, threw |-> FALSE])

NextOld ==
  \/ ShowAlert
  \/ \E onOK \in OnOKs : ShowConfirm(onOK)
  \/ \E d \in OverlayIds, index \in {0, 1}, fixup \in BOOLEAN : ClickButton(d, index, fixup)
  \/ \E d \in OverlayIds, fixup \in BOOLEAN : ClickX(d, fixup)
  \/ \E keyCode \in {ESC, OTHERKEY}, fixup \in BOOLEAN : OldKeyDown(keyCode, fixup)
  \/ OldKeyUp
  \/ \E d \in OverlayIds : Timer(d)
  \/ \E d \in OverlayIds : Show(d)
  \/ \E d \in OverlayIds, i \in 1 .. Len(ElementNames) : FocusArrives(d, i)
  \/ \E d \in OverlayIds : RemoveElement(d)

SpecOld == InitOld /\ [][NextOld]_vars

\* ================================================================ claims
Instances == {d \in DialogIds : kind[d] # "none"}

\* the instance is open with its root in the document
OpenInDoc(d) == d \in Instances /\ isOpen[d] /\ inBody[d]

Count(sq, x) == Cardinality({i \in 1 .. Len(sq) : sq[i] = x})

ClickOn(e) == lastEvent.type = "click" /\ lastEvent.target = e
EscapeIn(d) ==
  lastEvent.type = "keydown" /\ lastEvent.which = ESC /\ lastEvent.target[1] = d

\* C1: an instance created with a callback has invoked it exactly once as soon
\* as its first open period has ended (the first close() that found it open),
\* not before, and no later close() or trigger invokes it again.
C1_CallbackExactlyOnce ==
  \A d \in Instances :
    cb[d] => Len(cbLog[d]) = (IF isOpen[d] /\ inBody[d] THEN 0 ELSE 1)

\* an instance that was closed, opened again and closed again has still
\* invoked its callback once
C1_Witness ==
  \E d \in Instances :
    /\ cb[d]
    /\ fired[d] = <<"ready", "open", "close", "open">>
    /\ ~isOpen[d]
    /\ Len(cbLog[d]) = 1

\* C2: a click on the OK button of an open Confirm closes it and invokes the
\* callback with true; a click on its cancel button closes it and invokes the
\* callback with false.
C2_ConfirmClick ==
  \A d \in Instances :
    kind[d] = "confirm" =>
      /\ ClickOn(El(d, "ok")) =>
           ~isOpen[d] /\ ~inBody[d] /\ cbLog[d] = << <<"true">> >>
      /\ ClickOn(El(d, "cancel")) =>
           ~isOpen[d] /\ ~inBody[d] /\ cbLog[d] = << <<"false">> >>

C2_Witness ==
  \E d \in Instances :
    /\ kind[d] = "confirm"
    /\ ClickOn(El(d, "ok"))
    /\ ~isOpen[d]
    /\ cbLog[d] = << <<"true">> >>

\* C3 (as claimed): an Escape keydown that closes an open Confirm or Prompt
\* yields false or null, whichever element of the dialog holds the focus.
C3_EscapeIsCancel ==
  \A d \in Instances :
    (EscapeIn(d) /\ ~isOpen[d] /\ cbLog[d] # << >>) =>
      /\ kind[d] = "confirm" => cbLog[d] = << <<"false">> >>
      /\ kind[d] = "prompt" => cbLog[d] = << <<"null">> >>

\* C4: in a Prompt, a click on OK invokes the callback with the value the input
\* has at the click, a click on cancel invokes it with null, and the input of
\* a Prompt made without defaultValue is empty.
C4_Prompt ==
  [][ /\ \A d \in Instances :
           kind[d] = "prompt" =>
             /\ (lastEvent'.type = "click" /\ lastEvent'.target = El(d, "ok")) =>
                  ~isOpen'[d] /\ cbLog'[d] = << <<"string", value[d]>> >>
             /\ (lastEvent'.type = "click" /\ lastEvent'.target = El(d, "cancel")) =>
                  ~isOpen'[d] /\ cbLog'[d] = << <<"null">> >>
      /\ \A hasCb \in Callbacks :
           Factory("prompt", hasCb, Undefined) => value'[num] = << >> ]_vars

\* a Prompt closed by a click on OK while its input held the text h
C4_Witness ==
  \E d \in Instances :
    /\ kind[d] = "prompt"
    /\ ClickOn(El(d, "ok"))
    /\ ~isOpen[d]
    /\ cbLog[d] = << <<"string", <<"h">>>> >>

\* C5: an Alert has one closer, the OK button, and no cancel button or input;
\* every step that ends the open period of an Alert removes its root and
\* invokes the callback with no argument.
C5_Alert ==
  [][ \A d \in Instances :
        kind[d] = "alert" =>
          /\ Len(Children(kind[d])) = 1
          /\ Children(kind[d])[1].name = "ok"
          /\ Children(kind[d])[1].closer
          /\ (OpenInDoc(d) /\ ~isOpen'[d]) =>
               /\ ~inBody'[d]
               /\ cbLog'[d] = << <<"void">> >> ]_vars

\* an Alert closed by Escape
C5_Witness ==
  \E d \in Instances :
    /\ kind[d] = "alert"
    /\ EscapeIn(d)
    /\ ~isOpen[d]
    /\ ~inBody[d]
    /\ cbLog[d] = << <<"void">> >>

\* C6 (as claimed): when the first close of an instance completes, the element
\* that had the focus before open(), if it can take focus, has the focus.
C6_FocusRestored ==
  [][ \A d \in Instances :
        (OpenInDoc(d) /\ ~isOpen'[d] /\ Focusable(Cur, previousFocusElement[d])
           /\ ~Contains(Cur, d, previousFocusElement[d])
           /\ \A e \in Instances \ {d} : inBody'[e] = inBody[e])
          => activeElement' = previousFocusElement[d] ]_vars

\* the first and the last visible focusable descendant of an open dialog
FirstFocusable(d) == focusableChildren(Cur, d)[1]
LastFocusable(d) == focusableChildren(Cur, d)[Len(focusableChildren(Cur, d))]

\* C7: in an open dialog with visible focusable descendants f1..fn, Tab at fn
\* moves the focus to f1 and Shift+Tab at f1 moves it to fn, and the handler
\* calls preventDefault both times.
C7_TabWraps ==
  [][ \A d \in Instances, css \in BOOLEAN, cbThrows \in Throws :
        (OpenInDoc(d) /\ Len(focusableChildren(Cur, d)) >= 1) =>
          /\ (activeElement = LastFocusable(d) /\ KeyDown(TAB, FALSE, css, cbThrows)) =>
               /\ activeElement' = FirstFocusable(d)
               /\ lastEvent'.which = TAB /\ lastEvent'.defaultPrevented
          /\ (activeElement = FirstFocusable(d) /\ KeyDown(TAB, TRUE, css, cbThrows)) =>
               /\ activeElement' = LastFocusable(d)
               /\ lastEvent'.which = TAB /\ lastEvent'.defaultPrevented ]_vars

\* Tab on the OK button of an open Prompt has moved the focus to its input
C7_Witness ==
  \E d \in Instances :
    /\ kind[d] = "prompt"
    /\ OpenInDoc(d)
    /\ lastEvent.type = "keydown" /\ lastEvent.which = TAB /\ ~lastEvent.shiftKey
    /\ lastEvent.defaultPrevented
    /\ lastEvent.target = El(d, "ok")
    /\ activeElement = El(d, "input")

\* C8 (as claimed): with A and B open, a keydown while the focus is inside B
\* leaves A open, its callback not invoked and its root attached.
C8_OtherDialogIgnoresKey ==
  [][ \A a \in Instances, b \in Instances :
        \A which \in {TAB, ESC}, shiftKey \in BOOLEAN, css \in BOOLEAN, cbThrows \in Throws :
          (a # b /\ OpenInDoc(a) /\ OpenInDoc(b) /\ Contains(Cur, b, activeElement)
             /\ KeyDown(which, shiftKey, css, cbThrows))
            => isOpen'[a] /\ inBody'[a] /\ cbLog'[a] = cbLog[a] ]_vars

\* C9: a factory call takes a fresh instance, attaches one root more to the
\* document, emits ready and then open, and returns with the instance open and
\* its callback not invoked.
C9_Factory ==
  [][ \A k \in Kinds, hasCb \in Callbacks, dv \in DefaultValues :
        Factory(k, hasCb, dv) =>
          /\ num \notin Instances
          /\ num' = num + 1
          /\ kind'[num] = k
          /\ {d \in DialogIds : inBody'[d]} = {d \in DialogIds : inBody[d]} \cup {num}
          /\ ~inBody[num]
          /\ fired'[num] = <<"ready", "open">>
          /\ isOpen'[num]
          /\ cbLog'[num] = << >>
          /\ \A d \in Instances : cbLog'[d] = cbLog[d] ]_vars

\* two factory calls have returned: two instances open, nothing called back
C9_Witness ==
  /\ num = 2
  /\ \A d \in {0, 1} :
       /\ isOpen[d] /\ inBody[d]
       /\ fired[d] = <<"ready", "open">>
       /\ cbLog[d] = << >>
  /\ kind[0] # kind[1]

\* C10 (as claimed): ready is emitted first, no open is emitted after the
\* close emission, and an instance that was closed has emitted close once.
C10_LifecycleOrder ==
  \A d \in Instances :
    /\ fired[d] # << >> /\ fired[d][1] = "ready" /\ Count(fired[d], "ready") = 1
    /\ \A i \in 1 .. Len(fired[d]), j \in 1 .. Len(fired[d]) :
         (fired[d][i] = "close" /\ fired[d][j] = "open") => j < i
    /\ ~inBody[d] => Count(fired[d], "close") = 1

\* everything but the note of the last input event
programState ==
  <<num, kind, cb, isOpen, previousFocusElement, listeners, closerClick,
    ariaHidden, inBody, value, focusL, keydownL, activeElement, cbLog, fired,
    cbBody, heard, shown>>

\* C11 (as claimed): when an open dialog with a listener f registered for
\* close is closed, f is invoked with the dialog root and the closing event.
C11_CloseListenerHeard ==
  [][ \A d \in Instances :
        (OpenInDoc(d) /\ InSeq(listeners[d]["close"], "f") /\ ~isOpen'[d]) =>
          \E i \in 1 .. Len(heard'[d]) :
            /\ i > Len(heard[d])
            /\ heard'[d][i][1] = "f"
            /\ heard'[d][i][2] = "close"
            /\ heard'[d][i][3] = El(d, "root") ]_vars

\* C12 (as claimed): an instance that has been closed is never open again, gets
\* no observer attached again and emits no further open.
C12_ClosedIsTerminal ==
  [][ \A d \in Instances :
        ~isOpen[d] =>
          /\ ~isOpen'[d]
          /\ ~InSeq(focusL', d) /\ ~InSeq(keydownL', d)
          /\ Count(fired'[d], "open") = Count(fired[d], "open") ]_vars

\* C13: open() on an open instance and close() on an instance that is not open
\* change nothing: previous-focus target, focus, observers, registry, DOM,
\* callback log and emissions all stay as they are.
C13_GuardedNoOps ==
  [][ \A d \in Instances :
        /\ (isOpen[d] /\ CallOpen(d)) => UNCHANGED programState
        /\ \A css \in BOOLEAN, cbThrows \in Throws :
             (~isOpen[d] /\ CallClose(d, css, cbThrows)) => UNCHANGED programState ]_vars

\* an open instance with a registered listener whose previous-focus target is
\* the page button: a second open() would overwrite both
C13_Witness ==
  \E d \in Instances :
    /\ isOpen[d] /\ inBody[d]
    /\ listeners[d]["open"] = <<"g">>
    /\ previousFocusElement[d] = P
    /\ activeElement = El(d, "root")
    /\ lastEvent = NoActed

\* C14: the root of an instance is attached only when the instance is created,
\* the close that ends its first open period detaches it, and no later step
\* attaches it again.
C14_RootAttachedOnce ==
  [][ \A d \in DialogIds :
        /\ (inBody'[d] /\ ~inBody[d]) => (d \notin Instances /\ d = num)
        /\ (OpenInDoc(d) /\ ~isOpen'[d]) => ~inBody'[d] ]_vars

\* an instance that was closed and opened again: its root is still detached
C14_Witness ==
  \E d \in Instances :
    /\ fired[d] = <<"ready", "open", "close", "open">>
    /\ isOpen[d]
    /\ ~inBody[d]

\* input events of the older variant, as the step that handles them notes them
ButtonClicked(d, index) ==
  lastInput'.type = "button" /\ lastInput'.id = d /\ lastInput'.index = index
XClicked(d) == lastInput'.type = "x" /\ lastInput'.id = d
EscPressed == lastInput'.type = "keydown" /\ lastInput'.index = ESC
Hidden(d) == ~dialogs'[d].isOpen /\ dialogs'[d].display = "none"

\* what C15 says of the buttons and the close X of an open dialog, and of the
\* dialog of showAlert
OldButtons(d) ==
  /\ ButtonClicked(d, 0) =>
       /\ Hidden(d)
       /\ onOKCalls' = [onOKCalls EXCEPT ![d] =
                          IF dialogs[d].actions # << >> THEN @ + 1 ELSE 0]
  /\ (ButtonClicked(d, 1) \/ XClicked(d)) =>
       /\ Hidden(d)
       /\ onOKCalls' = onOKCalls
  /\ dialogs[d].actions = << >> =>
       /\ dialogs[d].actionLabels = <<"ok">>
       /\ onOKCalls'[d] = 0

\* C15 (as claimed): in the older variant the ok button hides the dialog and
\* calls onOK once; cancel, the close X and ESC hide it without calling onOK;
\* the dialog of showAlert has the ok button only and calls nothing.
C15_OldConfirmAsClaimed ==
  [][ \A d \in OverlayIds :
        dialogs[d].isOpen =>
          /\ OldButtons(d)
          /\ EscPressed => (Hidden(d) /\ onOKCalls' = onOKCalls) ]_vars

\* C15 (amended): as claimed for the buttons and the close X; ESC hides every
\* open dialog without calling onOK in the copy of src/unnamed/part_000, and
\* changes nothing in the copy dialog.js, which has no keydown listener.
C15_OldConfirm ==
  [][ \A d \in OverlayIds :
        dialogs[d].isOpen =>
          /\ OldButtons(d)
          /\ (EscPressed /\ script = "part_000") =>
               (Hidden(d) /\ onOKCalls' = onOKCalls)
          /\ (EscPressed /\ script = "dialog.js") =>
               (dialogs' = dialogs /\ onOKCalls' = onOKCalls) ]_vars

\* ESC has hidden a dialog of showConfirm without calling its onOK
C15_Witness ==
  /\ script = "part_000"
  /\ lastInput.type = "keydown" /\ lastInput.index = ESC
  /\ dialogs[0].actions = <<"function", "null">>
  /\ dialogs[0].created
  /\ ~dialogs[0].isOpen /\ dialogs[0].display = "none"
  /\ onOKCalls[0] = 0

\* the effects of close() on instance d, called now, in the order they happen
EffectsOfClose(d, css, cbThrows) == close(Css(css), d, NoEvent, cbThrows).trace
Tagged(d, sq) == [i \in 1 .. Len(sq) |-> <<d, sq[i]>>]

ClaimedOrder ==
  <<"aria-hidden", "refocus", "detached", "registry cleared", "removed",
    "callback", "returned", "marked closed", "close emitted">>
CodeOrder ==
  <<"aria-hidden", "refocus", "detached", "registry cleared", "marked closed",
    "removed", "callback", "returned", "close emitted">>

\* C16 (as claimed): an effective close() marks the instance closed only after
\* the callback has returned, right before it emits close.
C16_OrderAsClaimed ==
  \A d \in Instances, css \in BOOLEAN, cbThrows \in Throws :
    OpenInDoc(d) => EffectsOfClose(d, css, cbThrows) = Tagged(d, ClaimedOrder)

\* C16 (amended): an effective close() sets aria-hidden, refocuses the previous
\* focus target, detaches the observers and closer listeners, clears the
\* registry and marks the instance closed, then removes the root, invokes the
\* callback and, after the callback has returned, emits close; when the root is
\* not in the document it stops at the removal, the instance marked closed.
C16_Order ==
  \A d \in Instances, css \in BOOLEAN, cbThrows \in Throws :
    isOpen[d] =>
      EffectsOfClose(d, css, cbThrows) =
        Tagged(d, IF inBody[d] THEN CodeOrder ELSE SubSeq(CodeOrder, 1, 5))

\* an effective close() has run: the previous focus target P was refocused,
\* the root removed, the callback invoked and close emitted
C16_Witness ==
  \E d \in Instances :
    /\ ~isOpen[d] /\ ~inBody[d] /\ ariaHidden[d]
    /\ previousFocusElement[d] = P
    /\ activeElement = P
    /\ cbLog[d] = << <<"false">> >>
    /\ fired[d] = <<"ready", "open", "close">>
    /\ lastEvent = NoActed

\* the fields and the document state of instance d
instanceState(d) ==
  <<isOpen[d], inBody[d], cbLog[d], fired[d], heard[d], listeners[d],
    closerClick[d], ariaHidden[d], previousFocusElement[d], value[d]>>

\* C17: a step that ends the open period of an instance removes its root, calls
\* its callback once (if it has one) and emits close once without an error,
\* also when the callback or a close listener calls close() again; and a close
\* trigger on an instance that is not open changes nothing of that instance,
\* and nothing at all and raises nothing when no other instance is open.
C17_OneEffectiveClose ==
  [][ \A d \in Instances :
        /\ (OpenInDoc(d) /\ ~isOpen'[d]) =>
             /\ ~inBody'[d]
             /\ Len(cbLog'[d]) = (IF cb[d] THEN 1 ELSE 0)
             /\ Count(fired'[d], "close") = 1
             /\ ~lastEvent'.threw
        /\ \A css \in BOOLEAN, cbThrows \in Throws :
             (~isOpen[d] /\ CallClose(d, css, cbThrows)) =>
               /\ UNCHANGED programState
               /\ ~close(Css(css), d, NoEvent, cbThrows).threw
               /\ ~lastEvent'.threw
        /\ \A css \in BOOLEAN, cbThrows \in Throws :
             (~isOpen[d] /\ KeyDown(ESC, FALSE, css, cbThrows)) =>
               /\ UNCHANGED instanceState(d)
               /\ (\A e \in Instances : ~isOpen[e]) =>
                    (UNCHANGED programState /\ ~lastEvent'.threw)
        /\ \A n \in ChildNames, css \in BOOLEAN, cbThrows \in Throws :
             ~isOpen[d] =>
               clickListeners(Css(css), d, ClickEvent(El(d, n)), cbThrows) = Css(css) ]_vars

\* a dialog closed by Escape whose callback registered g for close: g was
\* invoked by the close emission and called close() again
C17_Witness ==
  \E d \in Instances :
    /\ cbBody[d] = "listen"
    /\ EscapeIn(d)
    /\ ~isOpen[d] /\ ~inBody[d]
    /\ Len(cbLog[d]) = 1
    /\ Len(heard[d]) = 1 /\ heard[d][1][1] = "g" /\ heard[d][1][2] = "close"
    /\ fired[d] = <<"ready", "open", "close">>

\* C18 (as claimed): a keydown or focus event that starts with the focus inside
\* an open dialog ends with the focus inside an open dialog, as long as a
\* dialog is open with its root in the document.
C18_FocusConfined ==
  [][ ( /\ \/ \E which \in {TAB, ESC, OTHERKEY}, shiftKey \in BOOLEAN,
                 css \in BOOLEAN, cbThrows \in Throws :
                 KeyDown(which, shiftKey, css, cbThrows)
           \/ \E e \in {P} \cup (DialogIds \X Names) : UserFocus(e)
        /\ IsDialogEl(activeElement) /\ OpenInDoc(activeElement[1])
        /\ \E d \in Instances : isOpen'[d] /\ inBody'[d] )
      => (IsDialogEl(activeElement') /\ isOpen'[activeElement'[1]]) ]_vars

\* C19 (as claimed): while a dialog is open, focus given to an element outside
\* every dialog is moved by the focus observers to the autofocus element (else
\* the root) of an open dialog; focus given to an element inside a dialog
\* stays there; with no dialog open focus stays where it was given.
C19_FocusRedirect ==
  [][ \A e \in {P} \cup (DialogIds \X Names) :
        UserFocus(e) =>
          /\ (~IsDialogEl(e) /\ \E d \in Instances : isOpen[d]) =>
               \E d \in Instances : isOpen[d] /\ activeElement' = autofocusOrRoot(Cur, d)
          /\ IsDialogEl(e) => activeElement' = e
          /\ (\A d \in Instances : ~isOpen[d]) => activeElement' = e ]_vars

\* C20 (as claimed): when an open dialog has no visible focusable descendant
\* and the focus is on its root, no listener throws while a Tab or Shift+Tab
\* keydown is handled.
C20_TabNeverThrows ==
  [][ \A d \in Instances, shiftKey \in BOOLEAN, css \in BOOLEAN, cbThrows \in Throws :
        ( /\ OpenInDoc(d)
          /\ focusableChildren(Cur, d) = << >>
          /\ activeElement = El(d, "root")
          /\ KeyDown(TAB, shiftKey, css, cbThrows) )
        => ~lastEvent'.threw ]_vars

\* ------------------------------------------------- a page of either variant
\* a page loads the class-based Dialog or one of the copies of the older variant
InitAll == Init \/ InitOld

NextAll ==
  \/ script = "none" /\ Next
  \/ script \in Scripts /\ NextOld

SpecAll == InitAll /\ [][NextAll]_vars

\* C21 (as claimed): no handler of the older variant that moves the focus
\* (show, the delayed setPrimaryFocus, the focus and keyup listeners) ends with
\* an exception, also when the element to focus is not in the document.
C21_FocusTargetNeverThrows ==
  lastInput.type \in {"showAlert", "showConfirm", "show", "timer", "focus", "keyup"}
    => ~lastInput.threw

\* a step in which instance d is closed while its callback throws
ThrowingClose(d) ==
  \/ \E css \in BOOLEAN :
        CallClose(d, css, TRUE) /\ close(Css(css), d, NoEvent, TRUE).threw
  \/ \E n \in ChildNames, f \in BOOLEAN, css \in BOOLEAN :
        Click(d, n, f, css, TRUE) /\ lastEvent'.threw
  \/ \E css \in BOOLEAN : KeyDown(ESC, FALSE, css, TRUE) /\ lastEvent'.threw

\* a step in which d is closed by a close(), a click or Escape, whatever the
\* callback does
ClosingStep(d) ==
  \E cbThrows \in CallbackThrows, css \in BOOLEAN :
    \/ CallClose(d, css, cbThrows)
    \/ \E n \in ChildNames, f \in BOOLEAN : Click(d, n, f, css, cbThrows)
    \/ KeyDown(ESC, FALSE, css, cbThrows)

\* C22: when the callback of an open dialog throws during a close, the
\* exception leaves close(), close is not emitted, and the instance is closed:
\* not open, root detached, observers and click listeners detached; the
\* callback was invoked once and no later step invokes it again.
C22_CallbackThrows ==
  [][ \A d \in Instances :
        /\ (OpenInDoc(d) /\ cb[d] /\ ClosingStep(d) /\ ~isOpen'[d]
               /\ Count(fired'[d], "close") = Count(fired[d], "close")) =>
             /\ ThrowingClose(d)
             /\ ~inBody'[d]
             /\ ~InSeq(focusL', d) /\ ~InSeq(keydownL', d)
             /\ ~closerClick'[d]
             /\ fired'[d] = fired[d]
             /\ Len(cbLog'[d]) = Len(cbLog[d]) + 1
        /\ (OpenInDoc(d) /\ cb[d] /\ ThrowingClose(d) /\ ~isOpen'[d]) =>
             /\ ~inBody'[d]
             /\ ~InSeq(focusL', d) /\ ~InSeq(keydownL', d)
             /\ ~closerClick'[d]
             /\ fired'[d] = fired[d]
             /\ Len(cbLog'[d]) = 1
        /\ Len(cbLog[d]) >= 1 => cbLog'[d] = cbLog[d] ]_vars

\* a dialog with a callback is closed, its callback was invoked, and close
\* was not emitted
C22_Witness ==
  \E d \in Instances :
    /\ cb[d]
    /\ ~isOpen[d] /\ ~inBody[d]
    /\ Len(cbLog[d]) = 1
    /\ fired[d] = <<"ready", "open">>
    /\ ~InSeq(focusL, d) /\ ~InSeq(keydownL, d) /\ ~closerClick[d]

\* the sequence without the first occurrence of l
RECURSIVE RemoveFirst(_, _)
RemoveFirst(sq, l) ==
  IF sq = << >> THEN << >>
  ELSE IF Head(sq) = l THEN Tail(sq)
  ELSE <<Head(sq)>> \o RemoveFirst(Tail(sq), l)

\* the listener sequences one longer than those the page registers
ListenerSeqs == UNION {[1 .. n -> Listeners] : n \in 0 .. (MaxListeners + 1)}

\* the invocations for type that this step added to those heard by d
NewHeard(d, type) ==
  SelectSeq(SubSeq(heard'[d], Len(heard[d]) + 1, Len(heard'[d])),
            LAMBDA h : h[2] = type)

\* one invocation with (root of d, event) per listener of sq, in order
Invocations(sq, d, type, event) ==
  [i \in 1 .. Len(sq) |-> <<sq[i], type, El(d, "root"), event>>]

\* the event this step handled, as the listeners get it
TriggerEvent ==
  [type |-> lastEvent'.type, target |-> lastEvent'.target,
   which |-> lastEvent'.which, shiftKey |-> lastEvent'.shiftKey]

\* off(type, l) on a registry whose sequence for type is sq, for every sq of
\* ListenerSeqs
OffRemovesFirst(d, type, l) ==
  \A sq \in ListenerSeqs :
    /\ off([Cur EXCEPT !.listeners[d][type] = sq], d, type, l).listeners[d]
         = [listeners[d] EXCEPT ![type] = RemoveFirst(sq, l)]
    /\ ~InSeq(sq, l) =>
         off([Cur EXCEPT !.listeners[d][type] = sq], d, type, l)
           = [Cur EXCEPT !.listeners[d][type] = sq]

\* C23: on(name, l) appends l to the sequence of name and leaves the other
\* sequences alone; off(name, l) removes the first occurrence of l from the
\* sequence of name and does nothing when l is not in it; an emission that
\* returns normally invokes the listeners that are in the sequence of the name
\* at that moment, in registration order, each with (root, trigger event).
C23_Registry ==
  [][ \A d \in Instances :
        /\ UNCHANGED <<fired, activeElement, shown>> =>
             \A type \in ListenedTypes, l \in Listeners :
               /\ On(d, type, l) =>
                    /\ listeners'[d] = [listeners[d] EXCEPT ![type] = Append(@, l)]
                    /\ OffRemovesFirst(d, type, l)
               /\ Off(d, type, l) =>
                    /\ listeners'[d] = [listeners[d] EXCEPT ![type] = RemoveFirst(@, l)]
                    /\ OffRemovesFirst(d, type, l)
        /\ (~isOpen[d] /\ isOpen'[d] /\ CallOpen(d) /\ ~open(Cur, d, NoEvent).threw) =>
             NewHeard(d, "open") = Invocations(listeners[d]["open"], d, "open", NoEvent)
        /\ (OpenInDoc(d) /\ ~isOpen'[d]) =>
             NewHeard(d, "close") =
               Invocations(IF cb[d] /\ cbBody[d] = "listen" THEN <<"g">> ELSE << >>,
                           d, "close", TriggerEvent) ]_vars

\* f was registered twice for open and an emission of open has invoked it
\* twice with the root
C23_Witness ==
  \E d \in Instances :
    /\ listeners[d]["open"] = <<"f", "f">>
    /\ heard[d] = Invocations(<<"f", "f">>, d, "open", NoEvent)

\* the element of dialog d that carries autofocus: the OK button of an Alert,
\* the cancel button of a Confirm, the text input of a Prompt
AutofocusTarget(k, d) ==
  CASE k = "alert" -> El(d, "ok")
    [] k = "confirm" -> El(d, "cancel")
    [] OTHER -> El(d, "input")

\* C24 (as claimed): a step in which an instance becomes open records the
\* element that had the focus before the step as the previous-focus target,
\* leaves the focus on the autofocus element of the dialog, and ends with open
\* emitted last, isOpen true and both observers attached.
C24_OpenMovesFocus ==
  [][ \A d \in DialogIds :
        (~isOpen[d] /\ isOpen'[d]) =>
          /\ previousFocusElement'[d] = activeElement
          /\ activeElement' = AutofocusTarget(kind'[d], d)
          /\ fired'[d][Len(fired'[d])] = "open"
          /\ InSeq(focusL', d) /\ InSeq(keydownL', d) ]_vars

\* the OverlayDialogs that were constructed
Made == {k \in OverlayIds : dialogs[k].made}

\* C25: the id counters only increase; a step that creates an instance gives
\* it the id the counter had, which no instance created before has, and
\* leaves the instances created before as they were registered (closed ones
\* included); Dialog.getDialogById(id) is the dialog constructed with that id.
C25_UniqueIds ==
  [][ /\ num' >= num /\ dialogNum' >= dialogNum
      /\ Instances = {d \in DialogIds : d < num}
      /\ num' # num =>
           /\ num' = num + 1
           /\ num \notin Instances
           /\ Instances' = Instances \cup {num}
           /\ \A e \in Instances : kind'[e] = kind[e]
      /\ Made = {k \in OverlayIds : k < dialogNum}
      /\ dialogNum' # dialogNum =>
           /\ dialogNum' = dialogNum + 1
           /\ dialogNum \notin Made
           /\ Made' = Made \cup {dialogNum}
           /\ dialogs'[dialogNum].id = dialogNum
      /\ \A k \in Made :
           /\ getDialogById(Old, k).id = k
           /\ dialogs'[k].made /\ dialogs'[k].id = k
           /\ dialogs'[k].actions = dialogs[k].actions ]_vars

\* a second dialog was created after the first one was hidden, under the next id
C25_Witness ==
  /\ dialogNum = 2
  /\ lastInput.type = "showConfirm" /\ lastInput.id = 1
  /\ dialogs[0].made /\ dialogs[0].id = 0 /\ ~dialogs[0].isOpen
  /\ dialogs[0].actions = << >>
  /\ dialogs[1].made /\ dialogs[1].id = 1 /\ dialogs[1].isOpen
  /\ dialogs[1].actions # << >>

\* C26: between handlers the keydown observer and the focus observer of an
\* instance are attached exactly while it is open; the click listeners of its
\* closers are attached by the construction, detached by the step that closes
\* it and never attached again; and only a call of open(), on() or off(), so
\* no click, key or focus event, changes anything of an instance that is not
\* open.
C26_Observers ==
  [][ \A d \in DialogIds :
        /\ InSeq(keydownL, d) <=> (d \in Instances /\ isOpen[d])
        /\ InSeq(focusL, d) <=> (d \in Instances /\ isOpen[d])
        /\ (d \notin Instances /\ d \in Instances') => closerClick'[d]
        /\ (d \in Instances /\ isOpen[d] /\ ~isOpen'[d]) => ~closerClick'[d]
        /\ (d \in Instances /\ closerClick[d] /\ ~closerClick'[d]) =>
             (isOpen[d] /\ ~isOpen'[d])
        /\ (d \in Instances /\ ~closerClick[d]) => ~closerClick'[d]
        /\ (d \in Instances /\ closerClick[d]) => inBody[d]
        /\ (d \in Instances /\ ~isOpen[d] /\ instanceState(d)' # instanceState(d)) =>
             \/ CallOpen(d)
             \/ \E type \in ListenedTypes, l \in Listeners :
                   On(d, type, l) \/ Off(d, type, l) ]_vars

\* a key was handled for an open dialog after another instance was closed:
\* the closed one has no observer and no click listener left
C26_Witness ==
  \E d, e \in Instances :
    /\ ~isOpen[d] /\ ~inBody[d]
    /\ ~InSeq(keydownL, d) /\ ~InSeq(focusL, d) /\ ~closerClick[d]
    /\ Count(fired[d], "close") = 1
    /\ isOpen[e] /\ InSeq(keydownL, e) /\ InSeq(focusL, e) /\ closerClick[e]
    /\ lastEvent.type = "keydown" /\ lastEvent.which = TAB

\* the focused element is not the one at which Tab (Shift+Tab) wraps in d: not
\* the last (first) of the focusable descendants that have a box
NotAtEdge(d, shiftKey, css) ==
  LET fc == focusableChildren(Css(css), d)
  IN \/ fc = << >>
     \/ activeElement # (IF shiftKey THEN fc[1] ELSE fc[Len(fc)])

\* the Tab listener of d, run now, moves no focus and prevents no default
TabListenerIdle(d, shiftKey, css) ==
  LET r == tabKeydownListener(Css(css), d, KeydownEvent(activeElement, TAB, shiftKey))
  IN r.activeElement = activeElement /\ ~r.prevented

\* C27 (as claimed): the Tab listener of an open dialog that holds the focus
\* moves no focus and prevents no default unless the focus is on the element
\* at which the key wraps; a Tab or Escape keydown that occurs while the focus
\* is outside the subtree of a dialog, or while the dialog is not open, changes
\* nothing of that dialog; and a keydown of another key changes nothing.
C27_TabFrame ==
  [][ \A d \in Instances :
        /\ \A shiftKey \in BOOLEAN, css \in BOOLEAN :
             (isOpen[d] /\ Contains(Cur, d, activeElement) /\ NotAtEdge(d, shiftKey, css))
               => TabListenerIdle(d, shiftKey, css)
        /\ (num' = num /\ value' = value /\ shown' = shown) =>
             /\ \A which \in {TAB, ESC}, shiftKey \in BOOLEAN, css \in BOOLEAN,
                    cbThrows \in Throws :
                  ( /\ shiftKey => which = TAB
                    /\ ~Contains(Cur, d, activeElement) \/ ~isOpen[d]
                    /\ KeyDown(which, shiftKey, css, cbThrows) )
                  => UNCHANGED instanceState(d)
             /\ \A css \in BOOLEAN, cbThrows \in Throws :
                  KeyDown(OTHERKEY, FALSE, css, cbThrows) => UNCHANGED programState ]_vars

\* C28 (as claimed): in the older variant the overflow style of the page is
\* 'hidden' while at least one dialog is open, and it is the style the page
\* had before the first show() when no dialog is open.
C28_PageOverflow ==
  IF \E d \in OverlayIds : dialogs[d].isOpen
    THEN overflow = "hidden"
    ELSE overflow = pageOverflow

\* the last action button of dialog d: cancel when there are two, else ok
LastButton(d) ==
  El(d, IF Len(dialogs[d].actionLabels) = 2 THEN "button1" ELSE "button0")

\* the element on which the focus arrived in this step
Arrived(d, n) ==
  /\ lastInput'.type = "focus" /\ lastInput'.id = d
  /\ ElementNames[lastInput'.index] = n

\* C29: in the older variant of src/unnamed/part_000, focus that arrives on
\* the blur catch of a dialog ends on its close X, focus that arrives on its
\* focus point ends on its last action button, a show() that returns leaves
\* the focus on the last action button of the dialog shown, and the focus
\* never rests on a focus point or a blur catch.
C29_FocusWraps ==
  [][ script = "part_000" =>
        /\ \A d \in OverlayIds :
             /\ Arrived(d, "BlurCatch") => focused' = El(d, "X")
             /\ Arrived(d, "FocusPoint") => focused' = LastButton(d)
             /\ ( /\ lastInput'.type \in {"showAlert", "showConfirm", "show"}
                  /\ lastInput'.id = d
                  /\ ~lastInput'.threw ) =>
                  (focused' = LastButton(d)' /\ dialogs'[d].isOpen)
        /\ focused'[2] \notin {"FocusPoint", "BlurCatch"} ]_vars

\* Shift+Tab off the top of an open confirm dialog has put the focus on its
\* cancel button
C29_Witness ==
  \E d \in OverlayIds :
    /\ script = "part_000"
    /\ lastInput.type = "focus" /\ lastInput.id = d
    /\ ElementNames[lastInput.index] = "FocusPoint"
    /\ dialogs[d].isOpen
    /\ dialogs[d].actionLabels = <<"ok", "cancel">>
    /\ focused = El(d, "button1")

====
